---- MODULE Spec2Model ----
(***************************************************************************)
(* The heatmap of gotraceui (type Heatmap, package main): bucket           *)
(* aggregation, saturation tables, the cached geometry and the hit test;   *)
(* and, of package theme, the sort order of Table and the drag selection   *)
(* of HistogramState.                                                      *)
(*                                                                         *)
(* Conventions of the model                                                *)
(*  - Go slices are functions over 0..n-1, so that index arithmetic reads  *)
(*    as in the source; a nil slice is the function with empty domain.     *)
(*  - time.Duration values are counted in milliseconds.                    *)
(*  - pointer coordinates (f32.Point) are counted in half pixels, so that  *)
(*    fractional positions are representable; viewport sizes               *)
(*    (image.Point) are counted in pixels.                                 *)
(*  - float32/float64 expressions are evaluated as exact quotients.  For   *)
(*    every viewport, bucket count and pointer position of this model the  *)
(*    IEEE results of the source's expressions were compared with the      *)
(*    exact ones and agree.                                                *)
(***************************************************************************)
EXTENDS Integers, Sequences, FiniteSets, TLC

\* ------------------------------------------------------------------------
\* Bounds of the model
\* ------------------------------------------------------------------------
\* the value range MaxY given to the heatmap (NewHeatmapComponent uses 100)
ValueRange == 4
\* most pointer-move events delivered to one Layout
MaxPointerEvents == 2
\* SpecAgg: MaxY ranges over 1..AggMaxY, YBucketSize over 1..AggMaxY+1
AggMaxY == 3
\* SpecAgg: sample values range over 0..AggMaxSample
AggMaxSample == 4
\* most key events delivered to one HeatmapComponent.Layout
MaxKeyEvents == 2
\* largest XBucketSize the right-arrow key is followed to
MaxXBucketSize == 110
\* the trace behind the component: its length and its processors
TraceSpan == 40
TraceProcessors == 2
\* the columns of the table
NumColumns == 4
\* the bins of the histogram
NumBins == 3
\* most pointer events delivered to one HistogramState.Update
MaxHistEvents == 2

\* ------------------------------------------------------------------------
\* Program constants
\* ------------------------------------------------------------------------
initialXStep == 100
initialYStep == 1
\* type SortOrder
SortNone == 0
SortAscending == 1
SortDescending == 2

\* ------------------------------------------------------------------------
\* Slices, points
\* ------------------------------------------------------------------------
Len0(s) == Cardinality(DOMAIN s)

Slice(seq) == [i \in 0..(Len(seq) - 1) |-> seq[i + 1]]

NilSlice == Slice(<<>>)

Point(x, y) == [X |-> x, Y |-> y]

Range(seq) == {seq[i] : i \in 1..Len(seq)}

\* Go's integer division truncates toward zero.
GoDiv(a, b) ==
    LET q == (IF a >= 0 THEN a ELSE -a) \div (IF b >= 0 THEN b ELSE -b)
    IN  IF (a >= 0) = (b >= 0) THEN q ELSE -q

\* ------------------------------------------------------------------------
\* Inputs
\* ------------------------------------------------------------------------
\* Viewports (gtx.Constraints.Max) a Layout may be given.
Viewports == {Point(3, 4), Point(4, 4)}

\* Positions of pointer-move events, in half pixels.
PointerPositions ==
    {Point(3, 4), Point(6, 8), Point(0, 4), Point(8, 9)}

\* Spec: the pointer either does not move or moves to one position.
FewPointerEvents == {<<>>, <<Point(3, 4)>>}

\* Values written to the public fields XBucketSize and YBucketSize.
XBucketSizes == {initialXStep, 110}
YBucketSizes == {initialYStep, 3}

\* Per-source sample sequences the sampler hands to SetData.
RawSeriesInputs ==
    { Slice(<<Slice(<<1>>), Slice(<<4>>)>>),
      Slice(<<Slice(<<0, 5>>), Slice(<<2, 2>>)>>),
      Slice(<<Slice(<<3, 4, 0>>), Slice(<<3, 0, 0>>)>>) }

VARIABLES
    \* type Heatmap
    MaxY, UseLinearColors, XBucketSize, YBucketSize,
    numXBuckets, numYBuckets, data, origData,
    pointer, pointerConstraint, hovered,
    cacheKey, cachedMacro,
    linearSaturations, rankedSaturations,
    \* the frame of the Layout that was called last, if no other method was
    \* called since: gtx.Constraints.Max and what the Layout added to gtx.Ops
    gtxMax, gtxOps,
    \* the calls the last Layout made, in order
    callLog,
    \* the fields in which the key built by the last Layout differed from
    \* the key stored when it was called
    keyDiff,
    \* whether the last Layout directly followed a Layout of the same
    \* viewport
    repeatedLayout,
    \* the method called last
    lastOp,
    \* "none", or the run-time panic that ended the program
    crashed,
    \* type HeatmapComponent: yStep and useLinear.Value
    yStep, useLinear,
    \* what the last HeatmapComponent.Layout put on the label line
    label,
    \* the key presses the last HeatmapComponent.Layout handled, in order,
    \* each with the values of yStep and XBucketSize before and after it
    keyLog,
    \* the events that were pending when the last Layout was called: the key
    \* events of the component and the pointer moves of the heatmap, and the
    \* operation that Layout came after
    frameInput,
    \* type Table: the public fields, the column whose header the last
    \* Table.Layout saw clicked,
    SortedBy, SortOrder, clickedColumn,
    \* what the last SortByClickedColumn returned, and whether a call has
    \* handled a click yet
    sortReturn, sortHandled,
    \* type HistogramState
    Histogram, dragging,
    \* what the last Update returned and from which branch, and what that
    \* call was given: the pending pointer events, the hover, the click
    histReturn, histFrame

hmVars == <<MaxY, UseLinearColors, XBucketSize, YBucketSize,
            numXBuckets, numYBuckets, data, origData,
            pointer, pointerConstraint, hovered,
            cacheKey, cachedMacro,
            linearSaturations, rankedSaturations>>

frameVars == <<gtxMax, gtxOps, callLog, keyDiff, repeatedLayout>>

hmcVars == <<yStep, useLinear>>

tblVars == <<SortedBy, SortOrder, clickedColumn, sortReturn, sortHandled>>

histVars == <<Histogram, dragging, histReturn, histFrame>>

themeVars == <<tblVars, histVars>>

heatmapVars == <<hmVars, frameVars, crashed, hmcVars, label, keyLog,
                 frameInput>>

vars == <<heatmapVars, lastOp, themeVars>>

\* ------------------------------------------------------------------------
\* type heatmapCacheKey, type HeatmapBucket
\* ------------------------------------------------------------------------
heatmapCacheKey(size, useLinearColors, yBucketSize, xBucketSize) ==
    [size |-> size, useLinearColors |-> useLinearColors,
     yBucketSize |-> yBucketSize, xBucketSize |-> xBucketSize]

ZeroCacheKey == heatmapCacheKey(Point(0, 0), FALSE, 0, 0)

HeatmapBucket(xStart, xEnd, yStart, yEnd, count) ==
    [XStart |-> xStart, XEnd |-> xEnd, YStart |-> yStart, YEnd |-> yEnd,
     Count |-> count]

NoHover == HeatmapBucket(0, 0, 0, 0, -1)

\* the zero value of op.CallOp
NoMacro == [recorded |-> FALSE]

\* the empty label line
NoLabel == [shown |-> FALSE]

\* no event pending
NoInput == [keys |-> <<>>, moves |-> <<>>, after |-> "none"]

\* ------------------------------------------------------------------------
\* Heatmap.computeBuckets
\* ------------------------------------------------------------------------
\* (the quotient rounded down instead of up)
floorDiv(mY, ybs) == mY \div ybs

\* int(math.Ceil(float64(MaxY) / float64(YBucketSize))), for MaxY >= 0 and
\* YBucketSize # 0 (the conversion of the infinite quotient of a zero
\* YBucketSize is implementation dependent and is not modelled)
ceilDiv(mY, ybs) ==
    IF ybs > 0 THEN (mY + ybs - 1) \div ybs ELSE -(mY \div (-ybs))

\* (the bin without the clamp to the last bucket)
yBinUnclamped(y, ybs, nY) == GoDiv(y, ybs)

\* the bin of sample y: y / YBucketSize, the last bucket being right closed
yBin(y, ybs, nY) ==
    LET bin == GoDiv(y, ybs)
    IN  IF bin >= nY THEN nY - 1 ELSE bin

\* (the loops storing 1 in the cell instead of incrementing it)
RECURSIVE countSamplesAssigning(_, _, _, _, _, _)
countSamplesAssigning(acc, orig, s, i, ybs, nY) ==
    IF acc.panic # "none" \/ s >= Len0(orig)
    THEN acc
    ELSE IF i >= Len0(orig[s])
    THEN countSamplesAssigning(acc, orig, s + 1, 0, ybs, nY)
    ELSE LET bin0 == GoDiv(orig[s][i], ybs)
             idx  == i * nY + (IF bin0 >= nY THEN nY - 1 ELSE bin0)
         IN  IF idx \notin DOMAIN acc.data
             THEN [acc EXCEPT !.panic = "index out of range"]
             ELSE countSamplesAssigning([acc EXCEPT !.data[idx] = 1],
                                        orig, s, i + 1, ybs, nY)

\* the two nested range loops; acc is [data, panic], s the source and i the
\* position in that source's sequence
RECURSIVE countSamples(_, _, _, _, _, _)
countSamples(acc, orig, s, i, ybs, nY) ==
    IF acc.panic # "none" \/ s >= Len0(orig)
    THEN acc
    ELSE IF i >= Len0(orig[s])
    THEN countSamples(acc, orig, s + 1, 0, ybs, nY)
    ELSE LET idx == i * nY + yBin(orig[s][i], ybs, nY)
         IN  IF idx \notin DOMAIN acc.data
             THEN [acc EXCEPT !.panic = "index out of range"]
             ELSE countSamples([acc EXCEPT !.data[idx] = @ + 1],
                               orig, s, i + 1, ybs, nY)

\* numYBuckets is stored first; make panics on a negative length before
\* hm.data is assigned
computeBuckets(orig, nX, mY, ybs) ==
    LET nY  == ceilDiv(mY, ybs)
        acc == countSamples([data |-> [i \in 0..(nX * nY - 1) |-> 0],
                             panic |-> "none"],
                            orig, 0, 0, ybs, nY)
    IN  IF nX * nY < 0
        THEN [numYBuckets |-> nY, data |-> NilSlice,
              panic |-> "makeslice: len out of range"]
        ELSE [numYBuckets |-> nY, data |-> acc.data, panic |-> acc.panic]

\* ------------------------------------------------------------------------
\* Heatmap.computeSaturations
\* ------------------------------------------------------------------------
RECURSIVE ascending(_)
ascending(S) ==
    IF S = {} THEN <<>>
    ELSE LET m == CHOOSE v \in S : \A w \in S : v <= w
         IN  <<m>> \o ascending(S \ {m})

\* (prev starting at 0 instead of -1: the value 0 is dropped)
sortedUniqueFromZero(d) == Slice(ascending({d[i] : i \in DOMAIN d} \ {0}))

\* sort.Ints followed by the loop that drops repeated values
sortedUnique(d) == Slice(ascending({d[i] : i \in DOMAIN d}))

\* sorted[len(sorted)-1]
largest(d) == CHOOSE v \in {d[i] : i \in DOMAIN d} :
                  \A i \in DOMAIN d : d[i] <= v

\* sort.SearchInts: the smallest index whose entry is >= v, or len(a)
SearchInts(a, v) ==
    CHOOSE i \in 0..Len0(a) :
        /\ i = Len0(a) \/ a[i] >= v
        /\ \A j \in 0..(i - 1) : a[j] < v

\* (the factor 0x100 instead of 0xFF: the largest value wraps around)
saturationWrapping(num, den) ==
    LET s == IF den = 0 THEN 0 ELSE ((256 * num) \div den) % 256
    IN  IF s = 0 THEN 1 ELSE s

\* uint8(0xFF * (float32(num) / float32(den))) followed by the raise of 0
\* to 1; 0/0 is NaN, which converts to 0
saturation(num, den) ==
    LET s == IF den = 0 THEN 0 ELSE (255 * num) \div den
    IN  IF s = 0 THEN 1 ELSE s

\* (the tables extended instead of allocated anew: entries that exist stay)
saturationLoopKeepingEntries(d, unique, max, linear, ranked) ==
    [linear |-> [i \in DOMAIN d |->
                   IF i \in DOMAIN linear THEN linear[i]
                   ELSE saturation(d[i], max)],
     ranked |-> [i \in DOMAIN d |->
                   IF i \in DOMAIN ranked THEN ranked[i]
                   ELSE saturation(SearchInts(unique, d[i]) + 1,
                                   Len0(unique))],
     panic |-> "none"]

\* the loop over hm.data, given the deduplicated sorted values and the
\* largest value
saturationLoop(d, unique, max, linear, ranked) ==
    IF \E i \in DOMAIN d : SearchInts(unique, d[i]) = Len0(unique)
    THEN [linear |-> linear, ranked |-> ranked,
          panic |-> "couldn't find bucket"]
    ELSE [linear |-> [i \in DOMAIN d |-> saturation(d[i], max)],
          ranked |-> [i \in DOMAIN d |->
                        saturation(SearchInts(unique, d[i]) + 1,
                                   Len0(unique))],
          panic |-> "none"]

\* (without the early return: sorted[len(sorted)-1] of an empty grid)
computeSaturationsUnguarded(d, linear, ranked) ==
    IF Len0(d) = 0
    THEN [linear |-> NilSlice, ranked |-> NilSlice,
          panic |-> "index out of range"]
    ELSE saturationLoop(d, sortedUnique(d), largest(d), linear, ranked)

\* the early return leaves both tables as they are
computeSaturations(d, linear, ranked) ==
    IF Len0(d) = 0
    THEN [linear |-> linear, ranked |-> ranked, panic |-> "none"]
    ELSE saturationLoop(d, sortedUnique(d), largest(d), linear, ranked)

\* ------------------------------------------------------------------------
\* Heatmap.Layout: cache key, geometry, hit test
\* ------------------------------------------------------------------------
\* (re-aggregation on any difference between the keys)
needsRecomputeAnyField(key, stored) == key # stored

\* key.xBucketSize != hm.cacheKey.xBucketSize ||
\* key.yBucketSize != hm.cacheKey.yBucketSize
needsRecompute(key, stored) ==
    key.xBucketSize # stored.xBucketSize \/ key.yBucketSize # stored.yBucketSize

\* (the comparison inverted)
cacheValidInverted(stored, key) == stored # key

\* (the comparison leaving the viewport size out)
cacheValidIgnoringSize(stored, key) == [stored EXCEPT !.size = key.size] = key

\* hm.cacheKey == key
cacheValid(stored, key) == stored = key

\* math.Round of num/den (den > 0): halves go away from zero
round32(num, den) ==
    IF num >= 0 THEN (2 * num + den) \div (2 * den)
    ELSE -((2 * (-num) + den) \div (2 * den))

\* (the far edges derived from the near edges and a rounded step)
cellRectFromWidth(x, y, dims, nX, nY) ==
    [Min |-> Point(round32(x * dims.X, nX),
                   round32(dims.Y * nY - y * dims.Y, nY)
                     - round32(dims.Y, nY)),
     Max |-> Point(round32(x * dims.X, nX) + round32(dims.X, nX),
                   round32(dims.Y * nY - y * dims.Y, nY))]

\* the pixel rectangle of cell (x, y); xStepPx = dims.X / nX,
\* yStepPx = dims.Y / nY, every edge rounded on its own
cellRect(x, y, dims, nX, nY) ==
    [Min |-> Point(round32(x * dims.X, nX),
                   round32(dims.Y * nY - (y + 1) * dims.Y, nY)),
     Max |-> Point(round32((x + 1) * dims.X, nX),
                   round32(dims.Y * nY - y * dims.Y, nY))]

\* var paths [256]clip.Path
NumPaths == 256

\* color.NRGBA{0xFF, m, m, 0xFF} with m := uint8(255 - i)
fillColor(i) == <<255, (255 - i) % 256, (255 - i) % 256, 255>>

\* (the loops without the skip of empty buckets)
drawnCellsAll(d) == [k \in 1..Len0(d) |-> k - 1]

\* the indexes of the cells the x/y loops draw, in the order of the loops
drawnCells(d) ==
    LET NonZero(i) == d[i] # 0
    IN  SelectSeq([k \in 1..Len0(d) |-> k - 1], NonZero)

\* (only the paths that received a rectangle being filled)
recordPathsUsedOnly(dims, drawn, nX, nY, saturations) ==
    [recorded |-> TRUE,
     clip     |-> dims,
     fillOps  |-> Cardinality({saturations[drawn[k]] : k \in 1..Len(drawn)}),
     paths    |-> [s \in {saturations[drawn[k]] : k \in 1..Len(drawn)} |->
                    LET Has(i) == saturations[i] = s
                        cells  == SelectSeq(drawn, Has)
                    IN  [color |-> fillColor(s),
                         rects |-> [k \in 1..Len(cells) |->
                                      cellRect(cells[k] \div nY,
                                               cells[k] % nY,
                                               dims, nX, nY)]]]]

\* NumPaths paths, one per saturation, each collecting the rectangles of
\* the drawn cells of that saturation, then one FillShape per path.  The
\* recorded macro lists the paths that received a rectangle; each of the
\* other paths is filled too, with no rectangle in it.
recordPaths(dims, drawn, nX, nY, saturations) ==
    [recorded |-> TRUE,
     clip     |-> dims,
     fillOps  |-> NumPaths,
     paths    |-> [s \in {saturations[drawn[k]] : k \in 1..Len(drawn)} |->
                    LET Has(i) == saturations[i] = s
                        cells  == SelectSeq(drawn, Has)
                    IN  [color |-> fillColor(s),
                         rects |-> [k \in 1..Len(cells) |->
                                      cellRect(cells[k] \div nY,
                                               cells[k] % nY,
                                               dims, nX, nY)]]]]

\* the else branch of the cache check
rebuildGeometry(dims, d, nY, saturations) ==
    recordPaths(dims, drawnCells(d), GoDiv(Len0(d), nY), nY, saturations)

\* the condition guarding the hover branch
hoverValid(dims, ptr, pc) ==
    /\ pc = dims
    /\ ptr.X > 0
    /\ ptr.Y > 0
    /\ ptr.X <= 2 * dims.X
    /\ ptr.Y <= 2 * dims.Y

\* int(hm.pointer.X / xStepPx)
hitX(ptr, dims, nX) == (ptr.X * nX) \div (2 * dims.X)

\* int((float32(dims.Y) - hm.pointer.Y) / yStepPx)
hitY(ptr, dims, nY) == ((2 * dims.Y - ptr.Y) * nY) \div (2 * dims.Y)

\* the hover branch; prev is the bucket stored by the previous Layout
hitTest(dims, ptr, pc, d, nY, xbs, ybs, prev) ==
    IF hoverValid(dims, ptr, pc)
    THEN LET nX  == Len0(d) \div nY
             x   == hitX(ptr, dims, nX)
             y   == hitY(ptr, dims, nY)
             idx == x * nY + y
             outline == IF nX = 0 THEN "none" ELSE cellRect(x, y, dims, nX, nY)
         IN  IF idx \notin DOMAIN d
             THEN [hovered |-> prev, outline |-> outline,
                   panic |-> "index out of range"]
             ELSE [hovered |-> HeatmapBucket(x * xbs, x * xbs + xbs,
                                             y * ybs, y * ybs + ybs, d[idx]),
                   outline |-> outline, panic |-> "none"]
    ELSE [hovered |-> NoHover, outline |-> "none", panic |-> "none"]

\* sequences of pointer-move events one Layout may find pending
PointerEventSeqs ==
    UNION {[1..n -> PointerPositions] : n \in 0..MaxPointerEvents}

\* The receiver hm and the frame of one Layout call, as a record; the
\* steps of Layout below take it and return it changed.
Self ==
    [MaxY |-> MaxY, UseLinearColors |-> UseLinearColors,
     XBucketSize |-> XBucketSize, YBucketSize |-> YBucketSize,
     numXBuckets |-> numXBuckets, numYBuckets |-> numYBuckets,
     data |-> data, origData |-> origData,
     pointer |-> pointer, pointerConstraint |-> pointerConstraint,
     hovered |-> hovered,
     cacheKey |-> cacheKey, cachedMacro |-> cachedMacro,
     linearSaturations |-> linearSaturations,
     rankedSaturations |-> rankedSaturations,
     gtxOps |-> [macro |-> NoMacro, outline |-> "none"],
     callLog |-> <<>>,
     crashed |-> crashed]

\* (the loop left after the first pending event)
drainPointerMovesFirstOnly(hm, evs, dims) ==
    IF evs = <<>> THEN hm
    ELSE [hm EXCEPT !.pointer = Head(evs), !.pointerConstraint = dims]

\* the loop over the pending pointer.Move events
RECURSIVE drainPointerMoves(_, _, _)
drainPointerMoves(hm, evs, dims) ==
    IF evs = <<>> THEN hm
    ELSE drainPointerMoves([hm EXCEPT !.pointer = Head(evs),
                                      !.pointerConstraint = dims],
                           Tail(evs), dims)

keyOf(hm, dims) ==
    heatmapCacheKey(dims, hm.UseLinearColors, hm.YBucketSize, hm.XBucketSize)

storeBuckets(hm, b) ==
    [hm EXCEPT !.numYBuckets = b.numYBuckets,
               !.data = IF b.panic = "makeslice: len out of range"
                        THEN @ ELSE b.data,
               !.crashed = b.panic,
               !.callLog = Append(@, "computeBuckets")]

storeSaturations(hm, s) ==
    [hm EXCEPT !.linearSaturations = s.linear, !.rankedSaturations = s.ranked,
               !.crashed = s.panic,
               !.callLog = Append(@, "computeSaturations")]

\* hm.computeBuckets()
callComputeBuckets(hm) ==
    storeBuckets(hm, computeBuckets(hm.origData, hm.numXBuckets, hm.MaxY,
                                    hm.YBucketSize))

\* hm.computeSaturations()
callComputeSaturations(hm) ==
    IF hm.crashed # "none" THEN hm
    ELSE storeSaturations(hm, computeSaturations(hm.data,
                                                 hm.linearSaturations,
                                                 hm.rankedSaturations))

\* (the re-aggregation in every Layout)
aggregateAlways(hm, dims) ==
    callComputeSaturations(
        callComputeBuckets(
            [hm EXCEPT !.numXBuckets = Len0(hm.origData[0])]))

\* the re-aggregation when a bucket size differs from the stored key's
aggregate(hm, dims) ==
    IF needsRecompute(keyOf(hm, dims), hm.cacheKey)
    THEN callComputeSaturations(
             callComputeBuckets(
                 [hm EXCEPT !.numXBuckets = Len0(hm.origData[0])]))
    ELSE hm

storeGeometry(hm, key, macro) ==
    [hm EXCEPT !.cacheKey = key, !.cachedMacro = macro,
               !.gtxOps.macro = macro,
               !.callLog = @ \o <<"compareKey", "rebuild", "Add">>]

\* the cache check: replay the recorded macro, or record a new one
cacheCheck(hm, dims) ==
    IF hm.crashed # "none" THEN hm
    ELSE IF hm.numYBuckets = 0
    THEN [hm EXCEPT !.crashed = "integer divide by zero"]
    ELSE IF cacheValid(hm.cacheKey, keyOf(hm, dims))
    THEN [hm EXCEPT !.gtxOps.macro = hm.cachedMacro,
                    !.callLog = @ \o <<"compareKey", "Add">>]
    ELSE storeGeometry(hm, keyOf(hm, dims),
                       rebuildGeometry(dims, hm.data, hm.numYBuckets,
                                       IF hm.UseLinearColors
                                       THEN hm.linearSaturations
                                       ELSE hm.rankedSaturations))

storeHover(hm, hit) ==
    [hm EXCEPT !.hovered = hit.hovered, !.gtxOps.outline = hit.outline,
               !.crashed = hit.panic,
               !.callLog = Append(@, "hitTest")]

hover(hm, dims) ==
    IF hm.crashed # "none" THEN hm
    ELSE storeHover(hm, hitTest(dims, hm.pointer, hm.pointerConstraint,
                                hm.data, hm.numYBuckets, hm.XBucketSize,
                                hm.YBucketSize, hm.hovered))

\* (the cache check placed before the re-aggregation)
layoutBodyCacheFirst(hm, dims, evs) ==
    hover(aggregate(cacheCheck(drainPointerMoves(hm, evs, dims), dims), dims),
          dims)

\* the body of Layout: pointer events, re-aggregation, cache check, hover
layoutBody(hm, dims, evs) ==
    hover(cacheCheck(aggregate(drainPointerMoves(hm, evs, dims), dims), dims),
          dims)

\* the state Layout leaves behind
Return(hm, dims) ==
    /\ pointer' = hm.pointer
    /\ pointerConstraint' = hm.pointerConstraint
    /\ numXBuckets' = hm.numXBuckets
    /\ numYBuckets' = hm.numYBuckets
    /\ data' = hm.data
    /\ linearSaturations' = hm.linearSaturations
    /\ rankedSaturations' = hm.rankedSaturations
    /\ cacheKey' = hm.cacheKey
    /\ cachedMacro' = hm.cachedMacro
    /\ hovered' = hm.hovered
    /\ gtxMax' = dims
    /\ gtxOps' = hm.gtxOps
    /\ callLog' = hm.callLog
    /\ keyDiff' = {f \in DOMAIN cacheKey : keyOf(Self, dims)[f] # cacheKey[f]}
    /\ repeatedLayout' = (lastOp = "Layout" /\ gtxMax = dims)
    /\ crashed' = hm.crashed
    /\ lastOp' = "Layout"
    /\ UNCHANGED <<MaxY, UseLinearColors, XBucketSize, YBucketSize, origData>>

Layout(dims, evs) ==
    /\ crashed = "none"
    /\ Return(layoutBody(Self, dims, evs), dims)
    /\ label' = NoLabel
    /\ keyLog' = <<>>
    /\ frameInput' = [keys |-> <<>>, moves |-> evs, after |-> lastOp]
    /\ UNCHANGED <<hmcVars, themeVars>>

\* ------------------------------------------------------------------------
\* Heatmap.SetData and the public fields
\* ------------------------------------------------------------------------
\* outside Layout there is no frame
NoFrame ==
    /\ gtxMax' = Point(0, 0)
    /\ gtxOps' = [macro |-> NoMacro, outline |-> "none"]
    /\ callLog' = <<>>
    /\ keyDiff' = {}
    /\ repeatedLayout' = FALSE
    /\ label' = NoLabel
    /\ keyLog' = <<>>
    /\ frameInput' = NoInput

\* (SetData without the invalidation of the cache key)
SetDataKeepingKey(d) ==
    /\ crashed = "none"
    /\ origData' = d
    /\ numXBuckets' = Len0(d[0])
    /\ lastOp' = "SetData"
    /\ UNCHANGED <<MaxY, UseLinearColors, XBucketSize, YBucketSize,
                   numYBuckets, data, pointer, pointerConstraint, hovered,
                   cacheKey, cachedMacro, linearSaturations,
                   rankedSaturations, crashed>>
    /\ NoFrame
    /\ UNCHANGED <<hmcVars, themeVars>>

\* data[0] panics when there is no source, after origData was assigned
SetData(d) ==
    /\ crashed = "none"
    /\ origData' = d
    /\ IF Len0(d) = 0
       THEN /\ crashed' = "index out of range"
            /\ UNCHANGED <<numXBuckets, cacheKey>>
       ELSE /\ numXBuckets' = Len0(d[0])
            /\ cacheKey' = ZeroCacheKey
            /\ UNCHANGED crashed
    /\ lastOp' = "SetData"
    /\ UNCHANGED <<MaxY, UseLinearColors, XBucketSize, YBucketSize,
                   numYBuckets, data, pointer, pointerConstraint, hovered,
                   cachedMacro, linearSaturations, rankedSaturations>>
    /\ NoFrame
    /\ UNCHANGED <<hmcVars, themeVars>>

\* hm.XBucketSize = v
SetXBucketSize(v) ==
    /\ crashed = "none"
    /\ v # XBucketSize
    /\ XBucketSize' = v
    /\ lastOp' = "SetXBucketSize"
    /\ UNCHANGED <<MaxY, UseLinearColors, YBucketSize,
                   numXBuckets, numYBuckets, data, origData,
                   pointer, pointerConstraint, hovered, cacheKey,
                   cachedMacro, linearSaturations, rankedSaturations,
                   crashed>>
    /\ NoFrame
    /\ UNCHANGED <<hmcVars, themeVars>>

\* hm.YBucketSize = v
SetYBucketSize(v) ==
    /\ crashed = "none"
    /\ v # YBucketSize
    /\ YBucketSize' = v
    /\ lastOp' = "SetYBucketSize"
    /\ UNCHANGED <<MaxY, UseLinearColors, XBucketSize,
                   numXBuckets, numYBuckets, data, origData,
                   pointer, pointerConstraint, hovered, cacheKey,
                   cachedMacro, linearSaturations, rankedSaturations,
                   crashed>>
    /\ NoFrame
    /\ UNCHANGED <<hmcVars, themeVars>>

\* hm.MaxY = v
SetMaxY(v) ==
    /\ crashed = "none"
    /\ v # MaxY
    /\ MaxY' = v
    /\ lastOp' = "SetMaxY"
    /\ UNCHANGED <<UseLinearColors, XBucketSize, YBucketSize,
                   numXBuckets, numYBuckets, data, origData,
                   pointer, pointerConstraint, hovered, cacheKey,
                   cachedMacro, linearSaturations, rankedSaturations,
                   crashed>>
    /\ NoFrame
    /\ UNCHANGED <<hmcVars, themeVars>>

\* hm.UseLinearColors = !hm.UseLinearColors
ToggleUseLinearColors ==
    /\ crashed = "none"
    /\ UseLinearColors' = ~UseLinearColors
    /\ lastOp' = "ToggleUseLinearColors"
    /\ UNCHANGED <<MaxY, XBucketSize, YBucketSize,
                   numXBuckets, numYBuckets, data, origData,
                   pointer, pointerConstraint, hovered, cacheKey,
                   cachedMacro, linearSaturations, rankedSaturations,
                   crashed>>
    /\ NoFrame
    /\ UNCHANGED <<hmcVars, themeVars>>

\* ------------------------------------------------------------------------
\* theme.Table and theme.HistogramState as declared
\* ------------------------------------------------------------------------
\* container.None[int]() and container.Some(i)
None == [ok |-> FALSE, v |-> 0]

Some(i) == [ok |-> TRUE, v |-> i]

\* Table{SortedBy: col, SortOrder: order}
NewTable(col, order) ==
    /\ SortedBy = col
    /\ SortOrder = order
    /\ clickedColumn = None
    /\ sortReturn = [col |-> 0, ok |-> FALSE]
    /\ sortHandled = FALSE

\* a nil *widget.Histogram
NilHistogram == [nil |-> TRUE]

NoSelection == [start |-> 0, end |-> 0, ok |-> FALSE, from |-> "none"]

NoHistFrame ==
    [shortcutPress |-> FALSE, releaseWhileActive |-> FALSE, last |-> "none",
     hovered |-> FALSE, clicked |-> FALSE, bin |-> 0]

\* HistogramState{Histogram: h}
NewHistogramState(h) ==
    /\ Histogram = h
    /\ dragging = [active |-> FALSE, startBucket |-> 0]
    /\ histReturn = NoSelection
    /\ histFrame = NoHistFrame

\* ------------------------------------------------------------------------
\* The heatmap as NewHeatmapComponent constructs it, and its operations
\* ------------------------------------------------------------------------
\* &Heatmap{UseLinearColors: false, XBucketSize: xbs, YBucketSize: ybs,
\* MaxY: mY} followed by SetData(d)
HeatmapConstructed(mY, xbs, ybs, d) ==
    /\ MaxY = mY
    /\ UseLinearColors = FALSE
    /\ XBucketSize = xbs
    /\ YBucketSize = ybs
    /\ origData = d
    /\ numXBuckets = Len0(d[0])
    /\ numYBuckets = 0
    /\ data = NilSlice
    /\ pointer = Point(0, 0)
    /\ pointerConstraint = Point(0, 0)
    /\ hovered = HeatmapBucket(0, 0, 0, 0, 0)
    /\ cacheKey = ZeroCacheKey
    /\ cachedMacro = NoMacro
    /\ linearSaturations = NilSlice
    /\ rankedSaturations = NilSlice
    /\ gtxMax = Point(0, 0)
    /\ gtxOps = [macro |-> NoMacro, outline |-> "none"]
    /\ callLog = <<>>
    /\ keyDiff = {}
    /\ repeatedLayout = FALSE
    /\ lastOp = "NewHeatmapComponent"
    /\ crashed = "none"
    /\ yStep = 0
    /\ useLinear = FALSE
    /\ label = NoLabel
    /\ keyLog = <<>>
    /\ frameInput = NoInput

\* the window with the heatmap alone: table and histogram stay as declared
Constructed(mY, xbs, ybs, d) ==
    /\ HeatmapConstructed(mY, xbs, ybs, d)
    /\ NewTable(0, SortNone)
    /\ NewHistogramState(NilHistogram)

Init ==
    \E d \in RawSeriesInputs :
        Constructed(ValueRange, initialXStep, initialYStep, d)

Next ==
    \/ \E dims \in Viewports : \E evs \in FewPointerEvents : Layout(dims, evs)
    \/ \E d \in RawSeriesInputs : SetData(d)
    \/ \E v \in XBucketSizes : SetXBucketSize(v)
    \/ \E v \in YBucketSizes : SetYBucketSize(v)
    \/ ToggleUseLinearColors

Spec == Init /\ [][Next]_vars

\* The heatmap under callers that break the contract of SetData and of the
\* bucket sizes: a raw series without sources, with sequences of unequal
\* length or with empty sequences, a negative YBucketSize, a zero
\* XBucketSize. No pointer event arrives.
BadSeriesInputs ==
    { Slice(<<>>),
      Slice(<<Slice(<<>>), Slice(<<>>)>>),
      Slice(<<Slice(<<1>>), Slice(<<3, 2>>)>>),
      Slice(<<Slice(<<1, 2>>), Slice(<<3>>)>>) }

BadBucketSizes == {0 - initialYStep}

ZeroBucketSizes == {0}

NextContract ==
    \/ \E dims \in Viewports : Layout(dims, <<>>)
    \/ \E d \in RawSeriesInputs \cup BadSeriesInputs : SetData(d)
    \/ \E v \in XBucketSizes \cup ZeroBucketSizes : SetXBucketSize(v)
    \/ \E v \in YBucketSizes \cup BadBucketSizes : SetYBucketSize(v)
    \/ ToggleUseLinearColors

SpecContract == Init /\ [][NextContract]_vars

\* The hit test under every pointer input: Layout is given any sequence of
\* pointer-move events, between changes of the Y bucket size and of the data.
NextHover ==
    \/ \E dims \in Viewports : \E evs \in PointerEventSeqs : Layout(dims, evs)
    \/ \E d \in RawSeriesInputs : SetData(d)
    \/ \E v \in YBucketSizes : SetYBucketSize(v)

SpecHover == Init /\ [][NextHover]_vars

\* The value range written between Layouts: the exported field MaxY is
\* given another value, between changes of the Y bucket size and of the data.
MaxYValues == {ValueRange, ValueRange - 2}

NextMaxY ==
    \/ \E dims \in Viewports : \E evs \in FewPointerEvents : Layout(dims, evs)
    \/ \E v \in MaxYValues : SetMaxY(v)
    \/ \E v \in YBucketSizes : SetYBucketSize(v)
    \/ \E d \in RawSeriesInputs : SetData(d)

SpecMaxY == Init /\ [][NextMaxY]_vars

\* The aggregation over every small input: a heatmap of any value range,
\* Y bucket size and sample sequences (a source may have fewer samples than
\* the first one), laid out once.
AggShapes == {<<1, 1>>, <<2, 1>>, <<2, 2>>}

AggRows(n) == [0..(n - 1) -> 0..AggMaxSample]

AggSeries ==
    UNION {{Slice(<<r0, r1>>) : r0 \in AggRows(sh[1]), r1 \in AggRows(sh[2])} :
           sh \in AggShapes}

InitAgg ==
    \E mY \in 1..AggMaxY : \E ybs \in 1..(AggMaxY + 1) : \E d \in AggSeries :
        Constructed(mY, initialXStep, ybs, d)

NextAgg == Layout(Point(3, 4), <<>>)

SpecAgg == InitAgg /\ [][NextAgg]_vars

\* ------------------------------------------------------------------------
\* type HeatmapComponent
\* ------------------------------------------------------------------------
\* ySteps := [...]int{1, 2, 4, 5, 10, 20, 25, 50, 100}
ySteps == Slice(<<1, 2, 4, 5, 10, 20, 25, 50, 100>>)

\* 10 * time.Millisecond, the step and the floor of XBucketSize
xStepChange == 10

\* key.Event: the arrow keys "Up", "Down", "Left", "Right", pressed or released
KeyNames == {"Up", "Down", "Left", "Right"}

KeyPress(name) == [Name |-> name, State |-> "Press"]

KeyRelease(name) == [Name |-> name, State |-> "Release"]

\* Sequences of key events one HeatmapComponent.Layout may find pending:
\* presses of the up and down keys,
YKeyEventSeqs ==
    UNION {[1..n -> {KeyPress("Up"), KeyPress("Down")}] :
             n \in 0..MaxKeyEvents}

\* and a press of the left or right key, alone or next to a press of the up
\* or down key, and a press followed by its release
XKeyEventSeqs ==
    { <<KeyPress("Left")>>, <<KeyPress("Right")>>,
      <<KeyPress("Up"), KeyPress("Left")>>,
      <<KeyPress("Right"), KeyPress("Down")>>,
      <<KeyPress("Up"), KeyRelease("Up")>> }

KeyEventSeqs == YKeyEventSeqs \cup XKeyEventSeqs

\* ptrace.ComputeProcessorBusy: the busy value of processor p in each
\* interval of length xStep of the trace
ComputeProcessorBusy(p, xStep) ==
    [i \in 0..((TraceSpan + xStep - 1) \div xStep - 1) |->
       (p + 2 * i + xStep \div xStepChange) % (ValueRange + 2)]

bucketByX(xStep) ==
    [p \in 0..(TraceProcessors - 1) |-> ComputeProcessorBusy(p, xStep)]

\* hm.SetData(d), on the record of the receiver
setData(hm, d) ==
    [hm EXCEPT !.origData = d, !.numXBuckets = Len0(d[0]),
               !.cacheKey = ZeroCacheKey]

\* The receiver hmc of one HeatmapComponent.Layout call, as a record.
SelfHmc == [hm |-> Self, yStep |-> yStep, useLinear |-> useLinear,
            keyLog |-> <<>>, keys |-> <<>>]

\* if hmc.useLinear.Update(gtx) { hmc.hm.UseLinearColors = hmc.useLinear.Value }
updateUseLinear(hmc, click) ==
    IF click
    THEN [hmc EXCEPT !.useLinear = ~hmc.useLinear,
                     !.hm.UseLinearColors = ~hmc.useLinear]
    ELSE hmc

\* (the index wrapping around to the first candidate)
upArrowWrapping(hmc) ==
    LET i == IF hmc.yStep + 1 >= Len0(ySteps) THEN 0 ELSE hmc.yStep + 1
    IN  [hmc EXCEPT !.yStep = i, !.hm.YBucketSize = ySteps[i]]

upArrow(hmc) ==
    LET i == IF hmc.yStep + 1 >= Len0(ySteps)
             THEN Len0(ySteps) - 1 ELSE hmc.yStep + 1
    IN  [hmc EXCEPT !.yStep = i, !.hm.YBucketSize = ySteps[i]]

downArrow(hmc) ==
    LET i == IF hmc.yStep - 1 < 0 THEN 0 ELSE hmc.yStep - 1
    IN  [hmc EXCEPT !.yStep = i, !.hm.YBucketSize = ySteps[i]]

\* (the raw series fetched before XBucketSize is changed)
leftArrowStaleFetch(hmc) ==
    LET xbs == IF hmc.hm.XBucketSize - xStepChange < xStepChange
               THEN xStepChange ELSE hmc.hm.XBucketSize - xStepChange
    IN  [hmc EXCEPT !.hm = [setData(@, bucketByX(hmc.hm.XBucketSize))
                              EXCEPT !.XBucketSize = xbs]]

leftArrow(hmc) ==
    LET xbs == IF hmc.hm.XBucketSize - xStepChange < xStepChange
               THEN xStepChange ELSE hmc.hm.XBucketSize - xStepChange
    IN  [hmc EXCEPT !.hm = setData([@ EXCEPT !.XBucketSize = xbs],
                                   bucketByX(xbs))]

rightArrow(hmc) ==
    LET xbs == hmc.hm.XBucketSize + xStepChange
    IN  [hmc EXCEPT !.hm = setData([@ EXCEPT !.XBucketSize = xbs],
                                   bucketByX(xbs))]

logKey(hmc, name, before, xBefore) ==
    [hmc EXCEPT !.keyLog = Append(@, [Name |-> name, before |-> before,
                                      after |-> hmc.yStep,
                                      xBefore |-> xBefore,
                                      xAfter |-> hmc.hm.XBucketSize])]

\* the body of the event loop for one event
handleKey(hmc, ev) ==
    IF ev.State # "Press" THEN hmc
    ELSE logKey(CASE ev.Name = "Up"    -> upArrow(hmc)
                  [] ev.Name = "Down"  -> downArrow(hmc)
                  [] ev.Name = "Left"  -> leftArrow(hmc)
                  [] ev.Name = "Right" -> rightArrow(hmc)
                  [] OTHER             -> hmc,
                ev.Name, hmc.yStep, hmc.hm.XBucketSize)

\* the event loop
RECURSIVE handleKeys(_, _)
handleKeys(hmc, evs) ==
    IF evs = <<>> THEN hmc
    ELSE handleKeys(handleKey([hmc EXCEPT !.keys = Append(@, Head(evs))],
                              Head(evs)),
                    Tail(evs))

\* the label line: the hovered bucket, its value range closed with ']' when
\* it reaches MaxY.  A Flex lays out its rigid children before the flexed
\* one, so the bucket is the one the heatmap held when its Layout was called.
\* (the comparison b.YEnd > hmc.hm.MaxY)
labelOfAboveMaxY(hm) ==
    IF hm.crashed # "none" \/ hm.hovered.Count = -1 THEN NoLabel
    ELSE [shown |-> TRUE, bucket |-> hm.hovered,
          close |-> IF hm.hovered.YEnd > hm.MaxY THEN "]" ELSE ")"]

\* the label of the first rigid child, laid out before the flexed heatmap
labelOf(hm) ==
    IF hm.crashed # "none" \/ hm.hovered.Count = -1 THEN NoLabel
    ELSE [shown |-> TRUE, bucket |-> hm.hovered,
          close |-> IF hm.hovered.YEnd >= hm.MaxY THEN "]" ELSE ")"]

\* hmc.hm.Layout(win, gtx) of the flexed child; frame is the receiver after
\* the event loop together with the heatmap its Layout leaves
heatmapFrame(hmc, dims, evs) ==
    [hmc |-> hmc, hm |-> layoutBody(hmc.hm, dims, evs), moves |-> evs]

\* the state HeatmapComponent.Layout leaves behind
ReturnHmc(frame, dims) ==
    /\ frame.hmc.hm.XBucketSize <= MaxXBucketSize
    /\ MaxY' = frame.hm.MaxY
    /\ UseLinearColors' = frame.hm.UseLinearColors
    /\ XBucketSize' = frame.hm.XBucketSize
    /\ YBucketSize' = frame.hm.YBucketSize
    /\ origData' = frame.hm.origData
    /\ pointer' = frame.hm.pointer
    /\ pointerConstraint' = frame.hm.pointerConstraint
    /\ numXBuckets' = frame.hm.numXBuckets
    /\ numYBuckets' = frame.hm.numYBuckets
    /\ data' = frame.hm.data
    /\ linearSaturations' = frame.hm.linearSaturations
    /\ rankedSaturations' = frame.hm.rankedSaturations
    /\ cacheKey' = frame.hm.cacheKey
    /\ cachedMacro' = frame.hm.cachedMacro
    /\ hovered' = frame.hm.hovered
    /\ gtxMax' = dims
    /\ gtxOps' = frame.hm.gtxOps
    /\ callLog' = frame.hm.callLog
    /\ keyDiff' = {f \in DOMAIN cacheKey :
                     keyOf(frame.hmc.hm, dims)[f] # frame.hmc.hm.cacheKey[f]}
    /\ repeatedLayout' = (lastOp = "HeatmapComponent.Layout" /\ gtxMax = dims)
    /\ crashed' = frame.hm.crashed
    /\ lastOp' = "HeatmapComponent.Layout"
    /\ yStep' = frame.hmc.yStep
    /\ useLinear' = frame.hmc.useLinear
    /\ keyLog' = frame.hmc.keyLog
    /\ frameInput' = [keys |-> frame.hmc.keys, moves |-> frame.moves,
                      after |-> lastOp]
    /\ label' = labelOf(frame.hmc.hm)
    /\ UNCHANGED themeVars

\* HeatmapComponent.Layout: checkbox, key events, the heatmap's Layout in
\* the viewport dims left to it, the label
HeatmapComponentLayout(click, keys, dims, evs) ==
    /\ crashed = "none"
    /\ ReturnHmc(heatmapFrame(handleKeys(updateUseLinear(SelfHmc, click),
                                         keys),
                              dims, evs),
                 dims)

\* NewHeatmapComponent(trace)
InitComponent ==
    Constructed(ValueRange, initialXStep, initialYStep,
                bucketByX(initialXStep))

\* Pointer moves one frame of the component may find pending, all inside
\* its viewport.
ComponentPointerEvents ==
    { <<>>, <<Point(3, 4)>>, <<Point(3, 4), Point(5, 2)>>,
      <<Point(5, 2), Point(3, 4)>> }

\* The component in its window: frames with pending key presses, frames
\* with pointer moves and with or without key presses, frames with a click
\* on the checkbox.
NextComponent ==
    \/ \E keys \in KeyEventSeqs :
         HeatmapComponentLayout(FALSE, keys, Point(3, 4), <<>>)
    \/ \E evs \in ComponentPointerEvents :
         \E keys \in {<<>>, <<KeyPress("Right"), KeyPress("Down")>>} :
           HeatmapComponentLayout(FALSE, keys, Point(3, 4), evs)
    \/ HeatmapComponentLayout(TRUE, <<>>, Point(3, 4), <<>>)

SpecComponent == InitComponent /\ [][NextComponent]_vars

\* The component with the MaxY NewHeatmapComponent gives it, in a window
\* high enough for the pointer to reach each of its 100 rows: frames with
\* one press of the up or down key or none, and one pointer move or none.
maxY == 100

LabelViewport == Point(3, 200)

LabelPointerEvents ==
    { <<>>, <<Point(3, 1)>>, <<Point(3, 4)>>, <<Point(3, 5)>>,
      <<Point(3, 199)>>, <<Point(3, 400)>> }

InitLabel ==
    Constructed(maxY, initialXStep, initialYStep, bucketByX(initialXStep))

NextLabel ==
    \E keys \in {<<>>, <<KeyPress("Up")>>, <<KeyPress("Down")>>} :
      \E evs \in LabelPointerEvents :
        HeatmapComponentLayout(FALSE, keys, LabelViewport, evs)

SpecLabel == InitLabel /\ [][NextLabel]_vars

\* ------------------------------------------------------------------------
\* theme.Table: the clicked column and the sort order
\* ------------------------------------------------------------------------
\* What one frame holds for the header of a column: nothing, a click of the
\* primary button, a click of another button.
HeaderEvents == {"none", "click", "secondary"}

\* the loop over headerClicks at the end of Table.Layout, from column i on
RECURSIVE clickedAfter(_, _, _)
clickedAfter(clicked, evs, i) ==
    IF i >= NumColumns THEN clicked
    ELSE clickedAfter(IF evs[i] = "click" THEN Some(i) ELSE clicked,
                      evs, i + 1)

\* Table.Layout, as far as the clicked column goes
TableLayout(evs) ==
    /\ clickedColumn' = clickedAfter(None, evs, 0)
    /\ lastOp' = "Table.Layout"
    /\ UNCHANGED <<SortedBy, SortOrder, sortReturn, sortHandled>>
    /\ UNCHANGED <<heatmapVars, histVars>>

\* (the switch with SortDescending followed by SortNone)
nextSortOrderCycling(order) == (order + 1) % 3

\* the switch on tbl.SortOrder
nextSortOrder(order) ==
    CASE order = SortNone       -> SortAscending
      [] order = SortAscending  -> SortDescending
      [] order = SortDescending -> SortAscending

\* Table.SortByClickedColumn
SortByClickedColumn ==
    /\ IF clickedColumn.ok
       THEN /\ IF clickedColumn.v = SortedBy
               THEN /\ SortOrder' = nextSortOrder(SortOrder)
                    /\ UNCHANGED SortedBy
               ELSE /\ SortedBy' = clickedColumn.v
                    /\ SortOrder' = SortAscending
            /\ sortReturn' = [col |-> clickedColumn.v, ok |-> TRUE]
       ELSE /\ UNCHANGED <<SortedBy, SortOrder>>
            /\ sortReturn' = [col |-> 0, ok |-> FALSE]
    /\ sortHandled' = (sortHandled \/ clickedColumn.ok)
    /\ lastOp' = "Table.SortByClickedColumn"
    /\ UNCHANGED clickedColumn
    /\ UNCHANGED <<heatmapVars, histVars>>

\* A table whose caller chose the column and the order it starts with.
InitTable ==
    /\ HeatmapConstructed(ValueRange, initialXStep, initialYStep,
                          bucketByX(initialXStep))
    /\ \E col \in 0..(NumColumns - 1) :
         \E order \in {SortNone, SortAscending, SortDescending} :
           NewTable(col, order)
    /\ NewHistogramState(NilHistogram)

NextTable ==
    \/ \E evs \in [0..(NumColumns - 1) -> HeaderEvents] : TableLayout(evs)
    \/ SortByClickedColumn

SpecTable == InitTable /\ [][NextTable]_vars

\* ------------------------------------------------------------------------
\* theme.HistogramState.Update
\* ------------------------------------------------------------------------
\* hs.prevBarWidth, in pixels
prevBarWidth == 2

\* key.ModShortcut
ModShortcut == "Shortcut"

PointerEvent(kind, mods) == [Kind |-> kind, Modifiers |-> mods]

\* Pointer events one Update may find pending: presses with and without the
\* shortcut modifier, releases and cancels in every order, and drags.
HistEvents ==
    { PointerEvent("Press", ModShortcut), PointerEvent("Press", "None"),
      PointerEvent("Release", "None"), PointerEvent("Cancel", "None") }

HistEventSeqs ==
    UNION {[1..n -> HistEvents] : n \in 0..MaxHistEvents}
      \cup { <<PointerEvent("Drag", ModShortcut)>>,
             <<PointerEvent("Press", ModShortcut),
               PointerEvent("Drag", ModShortcut)>> }

\* Clicks one Update may find pending.
Click(button, kind, n) == [Button |-> button, Kind |-> kind, NumClicks |-> n]

ClickSeqs ==
    { <<>>, <<Click("Primary", "Click", 1)>>,
      <<Click("Primary", "Click", 1), Click("Primary", "Click", 2)>>,
      <<Click("Secondary", "Click", 2)>>, <<Click("Primary", "Press", 2)>> }

\* X of the hover's pointer, in pixels: left of the plot, inside every bin,
\* right of the last bin
HistPointerXs ==
    {0 - prevBarWidth} \cup {b * prevBarWidth + 1 : b \in 0..NumBins}

Histograms ==
    { [nil |-> FALSE, Start |-> 0, BinWidth |-> 2, NumBins |-> NumBins],
      [nil |-> FALSE, Start |-> 3, BinWidth |-> 2, NumBins |-> NumBins] }

\* widget.Histogram.BucketRange: the value range of a bin
BucketRange(h, bin) ==
    [start |-> h.Start + bin * h.BinWidth,
     end   |-> h.Start + (bin + 1) * h.BinWidth]

\* the loop over hs.click.Update
clickedIn(clicks) ==
    \E k \in 1..Len(clicks) :
        /\ clicks[k].Button = "Primary"
        /\ clicks[k].Kind = "Click"
        /\ clicks[k].NumClicks = 2

\* one round of the loop over the pointer events
handlePointer(st, ev) ==
    CASE ev.Kind = "Press" ->
           IF ev.Modifiers = ModShortcut
           THEN [st EXCEPT !.active = TRUE, !.trackDragStart = TRUE]
           ELSE st
      [] ev.Kind = "Release" ->
           [st EXCEPT !.trackDragEnd = (@ \/ st.active), !.active = FALSE]
      [] ev.Kind = "Cancel" -> [st EXCEPT !.active = FALSE]
      [] OTHER -> st

RECURSIVE drainPointer(_, _)
drainPointer(st, evs) ==
    IF evs = <<>> THEN st
    ELSE drainPointer(handlePointer(st, Head(evs)), Tail(evs))

\* int(hs.hover.Pointer().X / hs.prevBarWidth), clamped to the bins
hoveredBin(h, x) ==
    LET bin == GoDiv(x, prevBarWidth)
    IN  IF bin < 0 THEN 0
        ELSE IF bin >= h.NumBins THEN h.NumBins - 1
        ELSE bin

\* (start and end taken from startBucket and bin as they come)
selectedRangeUnordered(h, startBucket, bin) ==
    [start |-> BucketRange(h, startBucket).start,
     end   |-> BucketRange(h, bin).end]

\* HistogramState.selectedRange
selectedRange(h, startBucket, bin) ==
    IF bin > startBucket
    THEN [start |-> BucketRange(h, startBucket).start,
          end   |-> BucketRange(h, bin).end]
    ELSE [start |-> BucketRange(h, bin).start,
          end   |-> BucketRange(h, startBucket).end]

\* start, end = hs.Histogram.BucketRange(bin) of a double click
clickRange(h, bin) ==
    [start |-> BucketRange(h, bin).start,
     end   |-> BucketRange(h, bin).end
                 + (IF bin = h.NumBins THEN 1 ELSE 0)]

Returned(r, from) ==
    [start |-> r.start, end |-> r.end, ok |-> ~(r.start = 0 /\ r.end = 0),
     from |-> from]

\* the branch taken when the pointer hovers; st is the outcome of the loop
\* over the pointer events
updateHovered(h, drg, st, clicked, bin) ==
    LET startBucket == IF st.trackDragStart THEN bin ELSE drg.startBucket
    IN  IF st.trackDragEnd
        THEN [dragging |-> [active |-> FALSE, startBucket |-> 0],
              ret |-> Returned(selectedRange(h, startBucket, bin), "drag")]
        ELSE [dragging |-> [active |-> st.active,
                            startBucket |-> startBucket],
              ret |-> IF clicked THEN Returned(clickRange(h, bin), "click")
                      ELSE NoSelection]

\* Update after the nil check
update(h, drg, st, clicked, hov, x) ==
    IF hov THEN updateHovered(h, drg, st, clicked, hoveredBin(h, x))
    ELSE [dragging |-> [drg EXCEPT !.active = st.active],
          ret |-> NoSelection]

\* whether the drag is active when event k arrives: the last event before
\* it that sets or clears it decides
IsShortcutPress(ev) == ev.Kind = "Press" /\ ev.Modifiers = ModShortcut

ActiveBefore(evs, k, a0) ==
    LET J == {j \in 1..(k - 1) :
                IsShortcutPress(evs[j]) \/ evs[j].Kind \in {"Release", "Cancel"}}
    IN  IF J = {} THEN a0
        ELSE IsShortcutPress(evs[CHOOSE j \in J : \A i \in J : i <= j])

\* what the call was given
FrameOf(h, evs, clicks, hov, x, a0) ==
    [shortcutPress |-> \E k \in 1..Len(evs) : IsShortcutPress(evs[k]),
     releaseWhileActive |->
        \E k \in 1..Len(evs) :
            evs[k].Kind = "Release" /\ ActiveBefore(evs, k, a0),
     last |-> IF evs = <<>> THEN "none" ELSE evs[Len(evs)].Kind,
     hovered |-> hov,
     clicked |-> \E k \in 1..Len(clicks) :
                    clicks[k] = Click("Primary", "Click", 2),
     bin |-> IF hov
             THEN (CHOOSE b \in 0..(h.NumBins - 1) :
                     \/ b * prevBarWidth <= x /\ x < (b + 1) * prevBarWidth
                     \/ b = 0 /\ x < 0
                     \/ b = h.NumBins - 1 /\ x >= h.NumBins * prevBarWidth)
             ELSE 0]

StoreUpdate(u) ==
    /\ dragging' = u.dragging
    /\ histReturn' = u.ret

\* HistogramState.Update
Update(evs, clicks, hov, x) ==
    /\ IF Histogram.nil
       THEN /\ histReturn' = NoSelection
            /\ histFrame' = NoHistFrame
            /\ UNCHANGED dragging
       ELSE /\ StoreUpdate(update(Histogram, dragging,
                                  drainPointer([active |-> dragging.active,
                                                trackDragStart |-> FALSE,
                                                trackDragEnd |-> FALSE],
                                               evs),
                                  clickedIn(clicks), hov, x))
            /\ histFrame' = FrameOf(Histogram, evs, clicks, hov, x,
                                    dragging.active)
    /\ lastOp' = "HistogramState.Update"
    /\ UNCHANGED Histogram
    /\ UNCHANGED <<heatmapVars, tblVars>>

\* hs.Histogram = h
SetHistogram(h) ==
    /\ Histogram # h
    /\ Histogram' = h
    /\ lastOp' = "SetHistogram"
    /\ UNCHANGED <<dragging, histReturn, histFrame>>
    /\ UNCHANGED <<heatmapVars, tblVars>>

InitHistogram ==
    /\ HeatmapConstructed(ValueRange, initialXStep, initialYStep,
                          bucketByX(initialXStep))
    /\ NewTable(0, SortNone)
    /\ NewHistogramState(NilHistogram)

NextHistogram ==
    \/ \E evs \in HistEventSeqs : \E clicks \in ClickSeqs :
         \/ \E x \in HistPointerXs : Update(evs, clicks, TRUE, x)
         \/ Update(evs, clicks, FALSE, 0)
    \/ \E h \in Histograms \cup {NilHistogram} : SetHistogram(h)

SpecHistogram == InitHistogram /\ [][NextHistogram]_vars

\* ========================================================================
\* Properties
\* ========================================================================
\* the key Layout builds in the frame of the primed state
KeyBuilt == heatmapCacheKey(gtxMax', UseLinearColors, YBucketSize, XBucketSize)

\* the geometry of the grid, the tables and the colour mode of a state
GeometryOf(dims, d, nY, linearMode, linear, ranked) ==
    rebuildGeometry(dims, d, nY, IF linearMode THEN linear ELSE ranked)

\* C1: a Layout that directly follows a Layout of the same viewport, no
\* field having been written and no SetData called in between, leaves the
\* stored key and the stored geometry as they are, adds the stored geometry
\* to the frame and neither re-aggregates nor rebuilds.
C1_RepeatedLayoutReusesCache ==
    [][(lastOp = "Layout" /\ lastOp' = "Layout" /\ gtxMax' = gtxMax)
         => /\ cacheKey' = cacheKey
            /\ cachedMacro' = cachedMacro
            /\ gtxOps'.macro = cachedMacro
            /\ callLog' = <<"compareKey", "Add", "hitTest">>]_vars

C1_Witness ==
    /\ lastOp = "Layout"
    /\ repeatedLayout
    /\ crashed = "none"
    /\ cachedMacro.recorded
    /\ gtxOps.macro = cachedMacro

\* C2: a Layout reuses the stored geometry exactly when the key it builds
\* from viewport, colour mode and the two bucket sizes equals the stored
\* key; otherwise it rebuilds the geometry from the grid and stores the
\* built key.
C2_RebuildIffKeyDiffers ==
    [][(lastOp' = "Layout" /\ "compareKey" \in Range(callLog'))
         => /\ cacheKey' = KeyBuilt
            /\ IF KeyBuilt = cacheKey
               THEN /\ "rebuild" \notin Range(callLog')
                    /\ cachedMacro' = cachedMacro
               ELSE /\ "rebuild" \in Range(callLog')
                    /\ cachedMacro' =
                         GeometryOf(gtxMax', data', numYBuckets',
                                    UseLinearColors, linearSaturations',
                                    rankedSaturations')
            /\ gtxOps'.macro = cachedMacro']_vars

C2_Witness ==
    /\ lastOp = "Layout"
    /\ Cardinality(keyDiff) = 1
    /\ "rebuild" \in Range(callLog)
    /\ crashed = "none"

\* C3: every Layout makes its calls in the order computeBuckets,
\* computeSaturations, key comparison, rebuild, Add, hit test; a Layout
\* called while XBucketSize or YBucketSize differs from the stored key
\* makes all of them, and the grid, the tables and the geometry it leaves
\* are those of the current data and bucket sizes.
C3_ReaggregateBeforeCacheCheck ==
    [][lastOp' = "Layout"
         => /\ callLog' \in
                 { <<"computeBuckets", "computeSaturations", "compareKey",
                     "rebuild", "Add", "hitTest">>,
                   <<"compareKey", "rebuild", "Add", "hitTest">>,
                   <<"compareKey", "Add", "hitTest">> }
            /\ (XBucketSize # cacheKey.xBucketSize
                  \/ YBucketSize # cacheKey.yBucketSize)
               => /\ callLog' = <<"computeBuckets", "computeSaturations",
                                  "compareKey", "rebuild", "Add", "hitTest">>
                  /\ numXBuckets' = Len0(origData[0])
                  /\ numYBuckets' * YBucketSize >= MaxY
                  /\ data' = computeBuckets(origData, Len0(origData[0]),
                                            MaxY, YBucketSize).data
                  /\ linearSaturations' =
                       computeSaturations(data', NilSlice, NilSlice).linear
                  /\ rankedSaturations' =
                       computeSaturations(data', NilSlice, NilSlice).ranked
                  /\ cachedMacro' =
                       GeometryOf(gtxMax', data', numYBuckets',
                                  UseLinearColors, linearSaturations',
                                  rankedSaturations')
                  /\ gtxOps'.macro = cachedMacro']_vars

C3_Witness ==
    /\ lastOp = "Layout"
    /\ keyDiff = {"yBucketSize"}
    /\ callLog[1] = "computeBuckets"
    /\ cachedMacro.recorded

\* C4: a Layout whose built key differs from the stored key in the colour
\* mode only leaves grid, bucket counts and both saturation tables alone,
\* calls neither computeBuckets nor computeSaturations, and replaces the
\* stored key and the geometry, the new geometry being drawn with the
\* table of the mode now selected.
C4_ColorToggleKeepsGrid ==
    [][(lastOp' = "Layout"
          /\ cacheKey = [KeyBuilt EXCEPT !.useLinearColors = ~UseLinearColors])
         => /\ UNCHANGED <<data, numXBuckets, numYBuckets,
                           linearSaturations, rankedSaturations>>
            /\ "computeBuckets" \notin Range(callLog')
            /\ "computeSaturations" \notin Range(callLog')
            /\ "rebuild" \in Range(callLog')
            /\ cacheKey' = KeyBuilt
            /\ cachedMacro' =
                 GeometryOf(gtxMax', data, numYBuckets, UseLinearColors,
                            linearSaturations, rankedSaturations)]_vars

C4_Witness ==
    /\ lastOp = "Layout"
    /\ keyDiff = {"useLinearColors"}
    /\ crashed = "none"
    /\ \E i \in DOMAIN data :
         data[i] # 0 /\ linearSaturations[i] # rankedSaturations[i]

\* the pointer lies in the closed rectangle [0, width] x [0, height]
PointerInViewport ==
    /\ 0 <= pointer.X /\ pointer.X <= 2 * gtxMax.X
    /\ 0 <= pointer.Y /\ pointer.Y <= 2 * gtxMax.Y

\* C5: every Layout ends, and at its end the hover is the sentinel exactly
\* when the viewport recorded with the last pointer move differs from the
\* current one or the pointer lies outside [0, width] x [0, height].
C5_HoverIffFreshAndInside ==
    lastOp = "Layout"
      => /\ crashed = "none"
         /\ (hovered.Count = -1)
              <=> (pointerConstraint # gtxMax \/ ~PointerInViewport)

\* C6: a valid hover reports a cell of the grid whose drawn rectangle
\* contains the pointer, with that cell's count and ranges.
C6_HoveredCellContainsPointer ==
    (lastOp = "Layout" /\ crashed = "none" /\ hovered.Count # -1)
      => \E x \in 0..(numXBuckets - 1) : \E y \in 0..(numYBuckets - 1) :
           LET r == cellRect(x, y, gtxMax, numXBuckets, numYBuckets)
           IN  /\ 2 * r.Min.X <= pointer.X /\ pointer.X <= 2 * r.Max.X
               /\ 2 * r.Min.Y <= pointer.Y /\ pointer.Y <= 2 * r.Max.Y
               /\ hovered =
                    HeatmapBucket(x * XBucketSize,
                                  x * XBucketSize + XBucketSize,
                                  y * YBucketSize,
                                  y * YBucketSize + YBucketSize,
                                  data[x * numYBuckets + y])

\* the bin the claim assigns to sample v: the last bin for v >= MaxY, else
\* the bin whose value range holds v
ExpectedBin(v) ==
    IF v >= MaxY THEN numYBuckets - 1
    ELSE CHOOSE b \in 0..(numYBuckets - 1) :
             b * YBucketSize <= v /\ v < (b + 1) * YBucketSize

\* the samples of the raw series, as (source, position) pairs
Samples == {<<s, i>> \in (DOMAIN origData) \X (0..(numXBuckets - 1)) :
              i \in DOMAIN origData[s]}

\* C7: after the aggregation every cell (x, bin) holds the number of
\* samples at x whose bin is floor(v / YBucketSize), the samples with
\* v >= MaxY being counted in the last bin; no sample is dropped, lands in
\* another column or ends the program.
C7_SamplesLandInClampedBin ==
    lastOp = "Layout"
      => /\ crashed = "none"
         /\ DOMAIN data = 0..(numXBuckets * numYBuckets - 1)
         /\ \A x \in 0..(numXBuckets - 1) : \A bin \in 0..(numYBuckets - 1) :
              data[x * numYBuckets + bin] =
                Cardinality({p \in Samples :
                               p[2] = x /\ ExpectedBin(origData[p[1]][x]) = bin})

C7_Witness ==
    /\ lastOp = "Layout"
    /\ numYBuckets > 1
    /\ \E p \in Samples : origData[p[1]][p[2]] > MaxY
    /\ \E p \in Samples : origData[p[1]][p[2]] = MaxY
    /\ \E p \in Samples : origData[p[1]][p[2]] < MaxY

RECURSIVE SumCells(_, _)
SumCells(d, I) ==
    IF I = {} THEN 0
    ELSE LET i == CHOOSE j \in I : TRUE
         IN  d[i] + SumCells(d, I \ {i})

C9_NumYBucketsIsCeiling ==
    lastOp = "Layout"
      => /\ numYBuckets * YBucketSize >= MaxY
         /\ (numYBuckets - 1) * YBucketSize < MaxY

C9_Witness ==
    /\ lastOp = "Layout"
    /\ MaxY % YBucketSize # 0
    /\ numYBuckets > 1
    /\ numYBuckets * YBucketSize > MaxY

\* C10 as claimed: once the grid has been computed, its length is
\* numXBuckets * numYBuckets in every state.
C10_GridLengthAlways ==
    numYBuckets # 0 => Len0(data) = numXBuckets * numYBuckets

\* C10: the length of the grid is numXBuckets * numYBuckets in every state
\* in which the cache key is not the invalidated one, that is, from the end
\* of a Layout up to the next SetData.
C10_GridLengthUnlessInvalidated ==
    cacheKey # ZeroCacheKey => Len0(data) = numXBuckets * numYBuckets

C10_Witness ==
    /\ lastOp = "Layout"
    /\ "xBucketSize" \in keyDiff
    /\ numXBuckets = 2
    /\ Len0(data) = numXBuckets * numYBuckets
    /\ pointerConstraint # Point(0, 0)

\* C11 as claimed: after every Layout numYBuckets is ceil(MaxY / YBucketSize)
\* for the value MaxY has at that Layout, and the grid is the aggregation of
\* the raw series under that MaxY.
C11_LayoutFollowsMaxY ==
    (lastOp = "Layout" /\ crashed = "none")
      => /\ numYBuckets * YBucketSize >= MaxY
         /\ (numYBuckets - 1) * YBucketSize < MaxY
         /\ data = computeBuckets(origData, numXBuckets, MaxY, YBucketSize).data

\* C11: a Layout called while XBucketSize or YBucketSize differs from the
\* stored key leaves numYBuckets = ceil(MaxY / YBucketSize) for the current
\* MaxY and the grid aggregated accordingly; every other Layout, also one
\* that follows a change of MaxY, leaves numYBuckets and the grid as they
\* were.
C11_MaxYPickedUpWithBucketSize ==
    [][lastOp' = "Layout"
         => IF XBucketSize # cacheKey.xBucketSize
                 \/ YBucketSize # cacheKey.yBucketSize
            THEN /\ numYBuckets' * YBucketSize >= MaxY
                 /\ (numYBuckets' - 1) * YBucketSize < MaxY
                 /\ data' = computeBuckets(origData, Len0(origData[0]),
                                           MaxY, YBucketSize).data
            ELSE UNCHANGED <<numYBuckets, data, linearSaturations,
                             rankedSaturations>>]_vars

C11_Witness ==
    /\ lastOp = "Layout"
    /\ crashed = "none"
    /\ keyDiff = {}
    /\ (numYBuckets - 1) * YBucketSize >= MaxY

\* the largest count of the grid, the distinct counts, and the position of
\* a count among the distinct counts in ascending order
MaxCount == CHOOSE v \in {data[i] : i \in DOMAIN data} :
                \A i \in DOMAIN data : data[i] <= v

DistinctCounts == {data[i] : i \in DOMAIN data}

RankIdx(v) == Cardinality({u \in DistinctCounts : u < v})

\* num/den rounded to the nearest integer
RoundDiv(num, den) == (2 * num + den) \div (2 * den)

AtLeastOne(s) == IF s = 0 THEN 1 ELSE s

\* C12: after computeSaturations on a grid whose largest count is positive,
\* the cells holding the largest count have linear saturation 255, the
\* cells with count 0 have linear saturation 0, and no other cell has
\* linear saturation 0.
C12_LinearEndpoints ==
    (lastOp = "Layout" /\ crashed = "none" /\ MaxCount > 0)
      => \A i \in DOMAIN data :
           /\ data[i] = MaxCount => linearSaturations[i] = 255
           /\ data[i] = 0 => linearSaturations[i] = 0
           /\ linearSaturations[i] = 0 => data[i] = 0

\* C13: the linear saturation of a cell with count v > 0 is
\* round(255 * v / maxValue), raised to 1 when that is 0.
C13_LinearIsRounded ==
    (lastOp = "Layout" /\ crashed = "none")
      => \A i \in DOMAIN data :
           data[i] > 0
             => linearSaturations[i] =
                  AtLeastOne(RoundDiv(255 * data[i], MaxCount))

\* C14: the ranked saturation of a cell with count v is
\* round(255 * (rankIdx + 1) / |U|), raised to 1 when that is 0, U being the
\* distinct counts in ascending order and rankIdx the position of v in U;
\* every entry lies in 1..255, the largest count gets 255 and equal counts
\* get equal entries.
C14_RankedIsRounded ==
    (lastOp = "Layout" /\ crashed = "none")
      => /\ \A i \in DOMAIN data :
              /\ rankedSaturations[i] =
                   AtLeastOne(RoundDiv(255 * (RankIdx(data[i]) + 1),
                                       Cardinality(DistinctCounts)))
              /\ rankedSaturations[i] \in 1..255
              /\ data[i] = MaxCount => rankedSaturations[i] = 255
         /\ \A i, j \in DOMAIN data :
              data[i] = data[j] => rankedSaturations[i] = rankedSaturations[j]

\* C15: in both tables a cell with a larger count never has a smaller
\* saturation than a cell with a smaller count.
C15_SaturationMonotonic ==
    (lastOp = "Layout" /\ crashed = "none")
      => \A i, j \in DOMAIN data :
           data[i] < data[j]
             => /\ rankedSaturations[i] <= rankedSaturations[j]
                /\ linearSaturations[i] <= linearSaturations[j]

C15_Witness ==
    /\ lastOp = "Layout"
    /\ crashed = "none"
    /\ Cardinality(DistinctCounts) = 3
    /\ \E i, j \in DOMAIN data :
         /\ 0 < data[i] /\ data[i] < data[j]
         /\ rankedSaturations[i] < rankedSaturations[j]
         /\ linearSaturations[i] < linearSaturations[j]

ActiveTable == IF UseLinearColors THEN linearSaturations ELSE rankedSaturations

UsedSaturations == {ActiveTable[i] : i \in {j \in DOMAIN data : data[j] # 0}}

\* a Layout has just rebuilt the geometry
Rebuilt ==
    /\ lastOp = "Layout"
    /\ crashed = "none"
    /\ "rebuild" \in Range(callLog)

\* C17 as claimed: a rebuild issues as many fill operations as there are
\* distinct saturations among the cells with nonzero count, at most 256.
C17_FillOpsAreUsedSaturations ==
    Rebuilt
      => /\ cachedMacro.fillOps = Cardinality(UsedSaturations)
         /\ cachedMacro.fillOps <= 256

\* C17: a rebuild issues 256 fill operations, one per possible saturation,
\* whatever the grid; the fills whose path received a rectangle are as many
\* as there are distinct saturations among the cells with nonzero count.
C17_OneFillPerPossibleSaturation ==
    Rebuilt
      => /\ cachedMacro.fillOps = 256
         /\ DOMAIN cachedMacro.paths = UsedSaturations
         /\ \A s \in DOMAIN cachedMacro.paths :
              Len(cachedMacro.paths[s].rects) > 0
         /\ Cardinality(UsedSaturations) <= 256

C17_Witness ==
    /\ Rebuilt
    /\ Cardinality(UsedSaturations) = 2
    /\ numXBuckets * numYBuckets > 4

\* the rectangle of the cell with index i in the frame of the last Layout
RectOfCell(i) ==
    cellRect(i \div numYBuckets, i % numYBuckets, gtxMax,
             numXBuckets, numYBuckets)

\* C18: in a rebuild the accumulators that receive rectangles are those of
\* the saturations the cells with nonzero count have in the table of the
\* colour mode; the accumulator of saturation s holds the rectangle of
\* every such cell of saturation s and nothing else, and is filled with
\* RGBA(255, 255-s, 255-s, 255); a cell with count 0 is in none.
C18_CellsInTheirAccumulator ==
    Rebuilt
      => /\ DOMAIN cachedMacro.paths = UsedSaturations
         /\ \A s \in DOMAIN cachedMacro.paths :
              LET cells == {i \in DOMAIN data : data[i] # 0 /\ ActiveTable[i] = s}
                  path  == cachedMacro.paths[s]
              IN  /\ path.color = <<255, 255 - s, 255 - s, 255>>
                  /\ Len(path.rects) = Cardinality(cells)
                  /\ \A i \in cells : RectOfCell(i) \in Range(path.rects)
         /\ \A i \in DOMAIN data :
              data[i] # 0
                => Cardinality({s \in DOMAIN cachedMacro.paths :
                                  RectOfCell(i)
                                    \in Range(cachedMacro.paths[s].rects)}) = 1

C18_Witness ==
    /\ Rebuilt
    /\ UseLinearColors
    /\ Cardinality(DOMAIN cachedMacro.paths) = 2
    /\ \E i \in DOMAIN data : data[i] = 0 /\ ActiveTable[i] # 0
    /\ \E i \in DOMAIN data :
         data[i] # 0 /\ linearSaturations[i] # rankedSaturations[i]

\* C19: the rectangles of the grid of the last Layout tile the viewport:
\* neighbours share their common edge, column 0 starts at 0, the last
\* column ends at the width, row 0 ends at the height and the last row
\* starts at 0.
C19_CellsShareEdges ==
    (lastOp = "Layout" /\ crashed = "none")
      => \A x \in 0..(numXBuckets - 1) : \A y \in 0..(numYBuckets - 1) :
           LET r == cellRect(x, y, gtxMax, numXBuckets, numYBuckets)
           IN  /\ r.Min.X <= r.Max.X /\ r.Min.Y <= r.Max.Y
               /\ IF x = 0 THEN r.Min.X = 0
                  ELSE r.Min.X = cellRect(x - 1, y, gtxMax, numXBuckets,
                                          numYBuckets).Max.X
               /\ x = numXBuckets - 1 => r.Max.X = gtxMax.X
               /\ IF y = 0 THEN r.Max.Y = gtxMax.Y
                  ELSE r.Max.Y = cellRect(x, y - 1, gtxMax, numXBuckets,
                                          numYBuckets).Min.Y
               /\ y = numYBuckets - 1 => r.Min.Y = 0

C19_Witness ==
    /\ Rebuilt
    /\ numXBuckets = 3
    /\ gtxMax.X = 4
    /\ \E s \in DOMAIN cachedMacro.paths :
         \E k \in 1..Len(cachedMacro.paths[s].rects) :
           cachedMacro.paths[s].rects[k].Min.X = 3

\* the candidate list of Y bucket sizes
Candidates == <<1, 2, 4, 5, 10, 20, 25, 50, 100>>

\* the presses of the frame of the primed state move the index by one,
\* clamped to the candidate list, one after the other; the index stays in
\* range and YBucketSize is the candidate at the index
YStepFollowsPresses ==
    /\ \A k \in 1..Len(keyLog') :
         LET e == keyLog'[k]
         IN  /\ e.before = IF k = 1 THEN yStep ELSE keyLog'[k - 1].after
             /\ e.Name = "Up"
                  => e.after = IF e.before = Len(Candidates) - 1
                               THEN e.before ELSE e.before + 1
             /\ e.Name = "Down"
                  => e.after = IF e.before = 0 THEN 0 ELSE e.before - 1
             /\ e.Name \in {"Left", "Right"} => e.after = e.before
    /\ yStep' = IF keyLog' = <<>> THEN yStep
                ELSE keyLog'[Len(keyLog')].after
    /\ yStep' \in 0..(Len(Candidates) - 1)
    /\ YBucketSize' = Candidates[yStep' + 1]

\* the frame of the primed state re-aggregated the raw series it had before
Reaggregated ==
    /\ SubSeq(callLog', 1, 2) = <<"computeBuckets", "computeSaturations">>
    /\ origData' = origData
    /\ data' = computeBuckets(origData, Len0(origData[0]), MaxY,
                              YBucketSize').data

\* the frame of the primed state left raw series, grid and tables alone
NothingReaggregated ==
    /\ "computeBuckets" \notin Range(callLog')
    /\ "computeSaturations" \notin Range(callLog')
    /\ UNCHANGED <<origData, data, numYBuckets, linearSaturations,
                   rankedSaturations, YBucketSize, yStep>>

\* the frame of the primed state handled up and down presses only
OnlyYPresses ==
    /\ keyLog' # <<>>
    /\ \A k \in 1..Len(keyLog') : keyLog'[k].Name \in {"Up", "Down"}
    /\ UseLinearColors' = UseLinearColors

\* C20 as claimed: every press moves the index by one, clamped; a frame
\* with a press that changed the index re-aggregates; a frame all of whose
\* presses were clamped changes nothing and does not re-aggregate.
C20_ChangingPressReaggregates ==
    [][(lastOp' = "HeatmapComponent.Layout" /\ cacheKey # ZeroCacheKey)
         => /\ YStepFollowsPresses
            /\ (OnlyYPresses
                  /\ \E k \in 1..Len(keyLog') :
                       keyLog'[k].after # keyLog'[k].before)
                 => Reaggregated
            /\ (OnlyYPresses
                  /\ \A k \in 1..Len(keyLog') :
                       keyLog'[k].after = keyLog'[k].before)
                 => NothingReaggregated]_vars

\* C20: every press moves the index by one, clamped; a frame whose presses
\* leave the index other than it was re-aggregates, without a new raw
\* series; a frame whose presses leave the index as it was, clamped or
\* cancelling each other, changes nothing and does not re-aggregate.
C20_ChangedIndexReaggregates ==
    [][(lastOp' = "HeatmapComponent.Layout" /\ cacheKey # ZeroCacheKey)
         => /\ YStepFollowsPresses
            /\ (OnlyYPresses /\ yStep' # yStep) => Reaggregated
            /\ (OnlyYPresses /\ yStep' = yStep) => NothingReaggregated]_vars

C20_Witness ==
    /\ lastOp = "HeatmapComponent.Layout"
    /\ crashed = "none"
    /\ yStep = Len(Candidates) - 1
    /\ Len(keyLog) = 2
    /\ keyLog[1].Name = "Up" /\ keyLog[1].after = keyLog[1].before + 1
    /\ keyLog[2].Name = "Up" /\ keyLog[2].after = keyLog[2].before
    /\ callLog[1] = "computeBuckets"

\* the presses of the left and right keys of the frame of the primed state
\* change XBucketSize by 10ms, not below 10ms, one after the other
XBucketSizeFollowsPresses ==
    /\ \A k \in 1..Len(keyLog') :
         LET e == keyLog'[k]
         IN  /\ e.xBefore = IF k = 1 THEN XBucketSize
                            ELSE keyLog'[k - 1].xAfter
             /\ e.Name = "Left"
                  => e.xAfter = IF e.xBefore - 10 < 10 THEN 10
                                ELSE e.xBefore - 10
             /\ e.Name = "Right" => e.xAfter = e.xBefore + 10
             /\ e.Name \in {"Up", "Down"} => e.xAfter = e.xBefore
    /\ XBucketSize' = IF keyLog' = <<>> THEN XBucketSize
                      ELSE keyLog'[Len(keyLog')].xAfter

\* C21: every press of the left or right key changes XBucketSize by -10ms or
\* +10ms, not below 10ms; XBucketSize is never below 10ms; the raw series
\* the heatmap holds is the one the sampler gives for the current
\* XBucketSize; a frame with such a press re-aggregates that series and
\* rebuilds the geometry.
C21_XKeysRefetch ==
    [][lastOp' = "HeatmapComponent.Layout"
         => /\ XBucketSizeFollowsPresses
            /\ XBucketSize' >= 10
            /\ origData' = bucketByX(XBucketSize')
            /\ (\E k \in 1..Len(keyLog') :
                  keyLog'[k].Name \in {"Left", "Right"})
                 => /\ callLog' = <<"computeBuckets", "computeSaturations",
                                    "compareKey", "rebuild", "Add", "hitTest">>
                    /\ numXBuckets' = Len0(origData'[0])
                    /\ data' = computeBuckets(origData', numXBuckets', MaxY,
                                              YBucketSize').data]_vars

C21_Witness ==
    /\ lastOp = "HeatmapComponent.Layout"
    /\ crashed = "none"
    /\ XBucketSize = 10
    /\ Len(keyLog) = 1
    /\ keyLog[1].Name = "Left" /\ keyLog[1].xBefore = 10
    /\ callLog[1] = "computeBuckets"
    /\ numXBuckets > 1

\* the precondition of SetData: at least one source, sequences of one
\* non-zero length
WellFormed(d) ==
    /\ Len0(d) > 0
    /\ Len0(d[0]) > 0
    /\ \A src \in DOMAIN d : Len0(d[src]) = Len0(d[0])

\* C22: a SetData with a raw series that breaks the precondition, and a
\* Layout while a bucket size is zero or negative or the raw series breaks
\* the precondition, do not panic and leave the grid, both saturation
\* tables, both bucket counts and the cache key as they were.
C22_ViolationsRejected ==
    [][/\ (lastOp' = "SetData" /\ ~WellFormed(origData'))
            => /\ crashed' = "none"
               /\ UNCHANGED <<data, linearSaturations, rankedSaturations,
                              numXBuckets, numYBuckets, cacheKey>>
       /\ (/\ lastOp' = "Layout"
           /\ \/ ~WellFormed(origData)
              \/ YBucketSize <= 0
              \/ XBucketSize <= 0)
            => /\ crashed' = "none"
               /\ UNCHANGED <<data, linearSaturations, rankedSaturations,
                              numXBuckets, numYBuckets, cacheKey>>]_vars

\* C25: a Layout that calls computeSaturations on a grid without cells
\* ends without a panic and with both saturation tables exactly as they
\* were.
C25_EmptyGridIsNoOp ==
    [][(/\ lastOp' = "Layout"
        /\ Len(callLog') > 1 /\ callLog'[2] = "computeSaturations"
        /\ Len0(data') = 0)
         => /\ crashed' = "none"
            /\ UNCHANGED <<linearSaturations, rankedSaturations>>]_vars

C25_Witness ==
    /\ lastOp = "Layout"
    /\ crashed = "none"
    /\ Len(callLog) > 1 /\ callLog[2] = "computeSaturations"
    /\ Len0(data) = 0
    /\ Len0(linearSaturations) > 0
    /\ Len0(rankedSaturations) > 0

\* C23: after every Layout the panic "couldn't find bucket" has not fired,
\* and every cell value is found in the deduplicated sorted sequence of the
\* grid at an index below its length, whose entry is the cell value itself
\* and which is the number of smaller distinct values; the ranked
\* saturation of the cell is the one of that index.
C23_EveryCellFound ==
    lastOp = "Layout"
      => /\ crashed # "couldn't find bucket"
         /\ \A i \in DOMAIN data :
              LET U   == sortedUnique(data)
                  idx == SearchInts(U, data[i])
              IN  /\ idx < Len0(U)
                  /\ U[idx] = data[i]
                  /\ idx = RankIdx(data[i])
                  /\ crashed = "none"
                       => rankedSaturations[i]
                            = AtLeastOne((255 * (idx + 1)) \div Len0(U))

C23_Witness ==
    /\ lastOp = "Layout"
    /\ crashed = "none"
    /\ "computeSaturations" \in Range(callLog)
    /\ 0 \in DistinctCounts
    /\ Cardinality(DistinctCounts) >= 3
    /\ Len0(data) > Cardinality(DistinctCounts)

\* how often a call occurs in a call log
Calls(log, name) == Cardinality({k \in 1..Len(log) : log[k] = name})

\* the names of the presses among key events, in their order
PressNames(keys) ==
    LET IsPress(e) == e.State = "Press"
        presses    == SelectSeq(keys, IsPress)
    IN  [k \in 1..Len(presses) |-> presses[k].Name]

\* C24: in every frame of the component the pending key presses are
\* handled in the order of their arrival, each on the result of the one
\* before, and the heatmap's Layout runs on the values the last one left;
\* the pointer capture is the position of the last pending pointer move
\* with the viewport of the frame; the grid is re-aggregated at most once
\* and the geometry rebuilt at most once; the hit test reads that capture.
C24_EventsDrainedBeforeLayout ==
    [][lastOp' = "HeatmapComponent.Layout"
         => /\ [k \in 1..Len(keyLog') |-> keyLog'[k].Name]
                 = PressNames(frameInput'.keys)
            /\ YStepFollowsPresses
            /\ XBucketSizeFollowsPresses
            /\ cacheKey' = heatmapCacheKey(gtxMax', UseLinearColors',
                                           YBucketSize', XBucketSize')
            /\ Calls(callLog', "computeBuckets") <= 1
            /\ Calls(callLog', "computeSaturations") <= 1
            /\ Calls(callLog', "rebuild") <= 1
            /\ Calls(callLog', "hitTest") = 1
            /\ IF frameInput'.moves = <<>>
               THEN UNCHANGED <<pointer, pointerConstraint>>
               ELSE /\ pointer'
                         = frameInput'.moves[Len(frameInput'.moves)]
                    /\ pointerConstraint' = gtxMax'
            /\ hovered' = hitTest(gtxMax', pointer', pointerConstraint',
                                  data', numYBuckets', XBucketSize',
                                  YBucketSize', hovered).hovered]_vars

C24_Witness ==
    /\ lastOp = "HeatmapComponent.Layout"
    /\ crashed = "none"
    /\ Len(keyLog) = 2
    /\ Len(frameInput.moves) = 2
    /\ pointer = Point(5, 2)
    /\ Calls(callLog, "computeBuckets") = 1
    /\ Calls(callLog, "rebuild") = 1
    /\ hovered.Count > 0

\* C26: with MaxY = 100 and YBucketSize any of the candidates, the label a
\* frame shows for a hovered bucket closes the value range with "]" when
\* the bucket is the last Y bucket of the grid it was hit in, and with ")"
\* for every other bucket.
C26_LabelClosesLastBucket ==
    [][(/\ lastOp' = "HeatmapComponent.Layout"
        /\ label'.shown
        /\ label'.bucket.YEnd > label'.bucket.YStart)
         => LET b    == label'.bucket
                size == b.YEnd - b.YStart
                y    == b.YStart \div size
            IN  /\ MaxY = 100
                /\ \E k \in 1..Len(Candidates) : Candidates[k] = size
                /\ b.YStart = y * size
                /\ numYBuckets = (100 + size - 1) \div size
                /\ label'.close
                     = IF y = numYBuckets - 1 THEN "]" ELSE ")"]_vars

C26_Witness ==
    /\ lastOp = "HeatmapComponent.Layout"
    /\ label.shown
    /\ label.close = "]"
    /\ label.bucket.YStart = 96
    /\ label.bucket.YEnd = 100

\* a label for a bucket below the last one
C26_WitnessOpen ==
    /\ lastOp = "HeatmapComponent.Layout"
    /\ label.shown
    /\ label.close = ")"
    /\ label.bucket.YStart = 50
    /\ label.bucket.YEnd = 75

\* C27: after a Layout whose pointer capture passes the hover guard, the
\* bucket indices of the hit test are below numXBuckets and numYBuckets,
\* the Layout has not panicked, and the hovered bucket is the cell of that
\* column and row.
C27_HitIndicesInGrid ==
    (/\ lastOp = "Layout"
     /\ pointerConstraint = gtxMax
     /\ 0 < pointer.X /\ pointer.X <= 2 * gtxMax.X
     /\ 0 < pointer.Y /\ pointer.Y <= 2 * gtxMax.Y)
      => LET x == hitX(pointer, gtxMax, numXBuckets)
             y == hitY(pointer, gtxMax, numYBuckets)
         IN  /\ 0 <= x /\ x < numXBuckets
             /\ 0 <= y /\ y < numYBuckets
             /\ crashed = "none"
             /\ hovered.XStart = x * XBucketSize
             /\ hovered.YStart = y * YBucketSize
             /\ hovered.Count = data[x * numYBuckets + y]

\* the primed state holds grid b and tables sat, their geometry is in the
\* frame and a hover reports the count of a cell of b
HoldsFresh(b, sat) ==
    /\ data' = b.data
    /\ linearSaturations' = sat.linear
    /\ rankedSaturations' = sat.ranked
    /\ gtxOps'.macro = GeometryOf(gtxMax', b.data, b.numYBuckets,
                                  UseLinearColors', sat.linear, sat.ranked)
    /\ hovered'.Count # -1
         => hovered'.Count
              = b.data[hitX(pointer', gtxMax', Len0(origData'[0]))
                         * b.numYBuckets
                       + hitY(pointer', gtxMax', b.numYBuckets)]

HoldsFreshGrid(b) ==
    HoldsFresh(b, computeSaturations(b.data, NilSlice, NilSlice))

\* C28: a Layout that follows a SetData re-aggregates and rebuilds whatever
\* the viewport, the colour mode and the bucket sizes are; and after every
\* Layout the grid and both tables are the aggregation of the raw series
\* of the last SetData, the geometry added to the frame is the geometry of
\* that grid, and a hover reports the count of a cell of that grid.
C28_SetDataInvalidates ==
    [][lastOp' = "Layout"
         => /\ lastOp = "SetData"
                 => callLog' = <<"computeBuckets", "computeSaturations",
                                 "compareKey", "rebuild", "Add", "hitTest">>
            /\ crashed' = "none"
            /\ HoldsFreshGrid(computeBuckets(origData', Len0(origData'[0]),
                                             MaxY', YBucketSize'))]_vars

C28_Witness ==
    /\ lastOp = "Layout"
    /\ crashed = "none"
    /\ frameInput.after = "SetData"
    /\ frameInput.moves = <<>>
    /\ keyDiff = {"size", "xBucketSize", "yBucketSize"}
    /\ "rebuild" \in Range(callLog)
    /\ hovered.Count > 0

\* C29: a SortByClickedColumn without a clicked column leaves SortedBy and
\* SortOrder alone and returns (0, false); with the column already sorted
\* by clicked it keeps SortedBy and moves SortOrder from none to ascending,
\* from ascending to descending, from descending to ascending; with another
\* column clicked it sorts by that column, ascending; it then returns the
\* column, which is SortedBy.  Once a call has handled a click SortOrder is
\* not SortNone.
C29_SortOrderStateMachine ==
    [][/\ lastOp' = "Table.SortByClickedColumn"
            => IF ~clickedColumn.ok
               THEN /\ UNCHANGED <<SortedBy, SortOrder>>
                    /\ sortReturn' = [col |-> 0, ok |-> FALSE]
               ELSE /\ sortReturn' = [col |-> clickedColumn.v, ok |-> TRUE]
                    /\ sortReturn'.col = SortedBy'
                    /\ IF clickedColumn.v = SortedBy
                       THEN /\ SortOrder = SortNone
                                 => SortOrder' = SortAscending
                            /\ SortOrder = SortAscending
                                 => SortOrder' = SortDescending
                            /\ SortOrder = SortDescending
                                 => SortOrder' = SortAscending
                       ELSE SortOrder' = SortAscending
       /\ sortHandled' => SortOrder' # SortNone]_vars

C29_Witness ==
    /\ lastOp = "Table.SortByClickedColumn"
    /\ sortReturn = [col |-> NumColumns - 1, ok |-> TRUE]
    /\ SortedBy = NumColumns - 1
    /\ SortOrder = SortDescending

\* the smaller and the larger of two bins
Lower(a, b) == IF a < b THEN a ELSE b

Higher(a, b) == IF a < b THEN b ELSE a

\* C30: an Update leaves dragging.active true only if it was true before or
\* the call saw a press with exactly the shortcut modifier, and false if
\* the last event it saw was a release or a cancel; it returns a drag
\* selection exactly when it saw a release while the drag was active and
\* the pointer hovers, and then dragging is inactive with startBucket 0;
\* the selection runs from the start of the lower of the start bin and the
\* hovered bin to the end of the higher one, the start bin being the
\* hovered bin if the call saw a shortcut press and startBucket otherwise.
C30_DragStateMachine ==
    [][(lastOp' = "HistogramState.Update" /\ ~Histogram.nil)
         => /\ (dragging'.active /\ ~dragging.active)
                 => histFrame'.shortcutPress
            /\ histFrame'.last \in {"Release", "Cancel"}
                 => ~dragging'.active
            /\ histReturn'.from = "drag"
                 <=> (histFrame'.releaseWhileActive /\ histFrame'.hovered)
            /\ histReturn'.ok => histReturn'.from \in {"drag", "click"}
            /\ histReturn'.from = "click"
                 => (histFrame'.clicked /\ histFrame'.hovered)
            /\ histReturn'.from = "drag"
                 => LET s  == IF histFrame'.shortcutPress
                              THEN histFrame'.bin ELSE dragging.startBucket
                        lo == Lower(s, histFrame'.bin)
                        hi == Higher(s, histFrame'.bin)
                    IN  /\ dragging' = [active |-> FALSE, startBucket |-> 0]
                        /\ histReturn'.start
                             = Histogram.Start + lo * Histogram.BinWidth
                        /\ histReturn'.end
                             = Histogram.Start + (hi + 1) * Histogram.BinWidth
                        /\ histReturn'.start <= histReturn'.end
                        /\ histReturn'.ok]_vars

\* a drag from the last bin back to the first, released in a later call
C30_Witness ==
    /\ lastOp = "HistogramState.Update"
    /\ histReturn.from = "drag"
    /\ ~histFrame.shortcutPress
    /\ histFrame.bin = 0
    /\ histReturn.end - histReturn.start = NumBins * Histogram.BinWidth
    /\ dragging = [active |-> FALSE, startBucket |-> 0]

\* C31: an Update that returns the range of a double click returns, for the
\* final bin of the histogram, the start of the bin's BucketRange and its
\* end plus 1, and for every other bin exactly the bin's BucketRange.
C31_FinalBinClosed ==
    [][(/\ lastOp' = "HistogramState.Update"
        /\ ~Histogram.nil
        /\ histReturn'.from = "click")
         => LET bin == histFrame'.bin
                r   == BucketRange(Histogram, bin)
            IN  /\ histReturn'.start = r.start
                /\ histReturn'.end
                     = IF bin = Histogram.NumBins - 1 THEN r.end + 1
                       ELSE r.end]_vars

====
